---- MODULE Spec2Model ----
(***************************************************************************)
(* Model of NetworkedPeriodicSignalQuantizer<T>                            *)
(* (src/networked_periodic_signal_quantizer.hpp).                          *)
(*                                                                         *)
(* The object buffers states pushed by a producer and, driven by update(), *)
(* hands one buffered state (or std::nullopt) to output_emitter each time  *)
(* the PeriodicSignal output_signal fires.  One step of the model is one   *)
(* complete call of push() or update(), or the passing of one unit of      *)
(* time on the monotonic clock that PeriodicSignal reads.  Time is kept    *)
(* as the time elapsed since the signal's last fire or restart, which is   *)
(* all that PeriodicSignal derives from the clock.                         *)
(*                                                                         *)
(* PeriodicSignal, SignalEmitter and ExponentialMovingAverage are not part *)
(* of the source file.  The emitter is modelled by the log of the values   *)
(* it was given, the average by the number of samples it was given and the *)
(* last of them; the periodic signal is modelled from its description: it  *)
(* fires when a full period has elapsed since its last fire or restart,    *)
(* one fire per call.                                                      *)
(* The Stopwatch and the logger do not influence control flow and are left *)
(* out.                                                                    *)
(***************************************************************************)
EXTENDS Integers, Sequences, FiniteSets, TLC

\* ------------------------------------------------------------------ bounds
MaxPushes == 3
MaxUpdates == 5
\* longest time the signal is left without a fire or restart
MaxElapsed == 10
\* value at which the record of the time since the first push stops counting
MaxSince == 4
NumItems == 2
\* LiveSpec: the producer waits while this many items are buffered
MaxQueue == 2
\* LiveSpec: longest time the signal is left without a fire or restart
MaxLiveElapsed == 3
\* LiveSpec: the two counters are kept modulo this value
CounterWrap == 2

\* --------------------------------------------------------------- constants
\* length of one output period in clock units (output_signal{60}: 1/60 s)
Period == 2
\* std::nullopt, the explicit "nothing available" marker
Nothing == 0
\* the values of T that are pushed
Items == 1..NumItems

VARIABLES
    received_server_states,     \* std::deque<T>, head first
    pushed_first_element,       \* bool
    was_empty_on_last_update,   \* bool, the warm-up flag
    total_emit_opportunities,   \* size_t
    missed_emit_opportunities,  \* size_t
    average_sample_count,       \* number of add_sample calls on the occupancy average
    average_last_sample,        \* the sample of the last add_sample call, -1 before it
    elapsed,                    \* output_signal: time since its last fire or restart
    clock_polls,                \* number of process_and_get_signal() calls
    emitted,                    \* arguments of output_emitter.emit, in call order
    pushed,                     \* arguments of push, in call order
    fires,                      \* per fire: buffer size and flag found, branch taken
    update_calls,               \* number of update() calls
    since_first_push,           \* time since the first push (up to MaxSince), -1 before it
    restarts,                   \* number of output_signal.restart() calls
    percentage_result,          \* what get_missed_emit_percentage returned in this step
    tracked                     \* LiveSpec: buffer position of the item followed,
                                \* 0 when none is, -1 once it was emitted

vars == <<received_server_states, pushed_first_element, was_empty_on_last_update,
          total_emit_opportunities, missed_emit_opportunities,
          average_sample_count, average_last_sample, elapsed, clock_polls,
          emitted, pushed, fires, update_calls, since_first_push, restarts,
          percentage_result, tracked>>

\* --------------------------------------------------------- PeriodicSignal
\* process_and_get_signal(): true when a full period has elapsed
EnoughTimeHasPassed(e) == e >= Period

\* the elapsed time after process_and_get_signal(): a fire consumes all of
\* it, so several elapsed periods give one fire
ElapsedAfterPoll(e) == IF EnoughTimeHasPassed(e) THEN 0 ELSE e

\* restart(): the next fire is one full period after the call
ElapsedAfterRestart(e) == 0

\* ------------------------------------------------------------- std::deque
\* variant: the item is inserted at the head
PushBack_front(s, item) == <<item>> \o s

\* variant: a full buffer (2 items) drops the pushed item
PushBack_capped(s, item) == IF Len(s) >= 2 THEN s ELSE Append(s, item)

PushBack(s, item) == Append(s, item)

\* front() and pop_front() of an empty deque are undefined behaviour: any
\* value may be read and the deque may be left in any small state
FrontOutcomes(s) == IF s = <<>> THEN Items ELSE {Head(s)}

PopFrontOutcomes(s) == IF s = <<>> THEN {<<>>} \cup {<<x>> : x \in Items} ELSE {Tail(s)}

\* ------------------------------------------------------------------- push
\* variant: the signal is never restarted
RestartsOnPush_never(pushed_first) == FALSE

\* push() restarts output_signal when nothing was pushed before
RestartsOnPush(pushed_first) == ~pushed_first

\* ----------------------------------------------------------------- update
\* variant: the early return is missing
ReturnsEarly_never(pushed_first) == FALSE

\* update() returns at once when nothing was ever pushed
ReturnsEarly(pushed_first) == ~pushed_first

\* variant: add_sample is called inside the if on the signal
SampleCountAfterUpdate_onlyOnFire(count, fired) ==
    IF fired THEN count + 1 ELSE count

\* add_sample is called once by every update() that gets past the early
\* return
SampleCountAfterUpdate(count, fired) == count + 1

\* variant: the check for an empty buffer is missing
UpdateBranch_noEmptyCheck(states, was_empty) ==
    IF was_empty /\ Len(states) < 2 THEN "refill" ELSE "emit"

\* variant: the size test is missing from the second condition
UpdateBranch_noSizeTest(states, was_empty) ==
    IF Len(states) = 0 THEN "empty"
    ELSE IF was_empty THEN "refill"
    ELSE "emit"

\* variant: the second condition is missing, any item is emitted at once
UpdateBranch_noRefill(states, was_empty) ==
    IF Len(states) = 0 THEN "empty" ELSE "emit"

\* variant: "size() <= 2" in place of "size() < 2"
UpdateBranch_offByOne(states, was_empty) ==
    IF Len(states) = 0 THEN "empty"
    ELSE IF was_empty /\ Len(states) <= 2 THEN "refill"
    ELSE "emit"

\* the if / else if / else chain of update() on a fire
UpdateBranch(states, was_empty) ==
    IF Len(states) = 0 THEN "empty"
    ELSE IF was_empty /\ Len(states) < 2 THEN "refill"
    ELSE "emit"

\* variant: the increment of total_emit_opportunities is missing
TotalAfterFire_forgotten(total) == total

TotalAfterFire(total) == total + 1

\* variant: "if" in place of "else if": an empty buffer sets the flag and
\* then also satisfies the second condition, counting the miss twice
MissedAfterFire_fallThrough(branch, missed) ==
    IF branch = "empty" THEN missed + 2
    ELSE IF branch = "refill" THEN missed + 1 ELSE missed

\* variant: the increment in the else-if branch is missing
MissedAfterFire_refillNotCounted(branch, missed) ==
    IF branch = "empty" THEN missed + 1 ELSE missed

MissedAfterFire(branch, missed) ==
    IF branch \in {"empty", "refill"} THEN missed + 1 ELSE missed

\* variant: the flag is reset when an item is emitted
FlagAfterFire_cleared(branch, was_empty) ==
    IF branch = "empty" THEN TRUE
    ELSE IF branch = "emit" THEN FALSE ELSE was_empty

\* variant: the assignment in the empty branch is missing
FlagAfterFire_neverSet(branch, was_empty) == was_empty

FlagAfterFire(branch, was_empty) ==
    IF branch = "empty" THEN TRUE ELSE was_empty

\* the values emitted_value can hold when emit is called
EmittedValues(branch, states) ==
    IF branch = "emit" THEN FrontOutcomes(states) ELSE {Nothing}

StatesAfterFire(branch, states) ==
    IF branch = "emit" THEN PopFrontOutcomes(states) ELSE {states}

\* variant: emit is called after the if block, on every update
SinkCalls_always(fired, value) == IF fired THEN <<value>> ELSE <<Nothing>>

\* the calls of output_emitter.emit made by one update() that got past the
\* early return: one when the signal fired, none otherwise
SinkCalls(fired, value) == IF fired THEN <<value>> ELSE <<>>

\* ------------------------------------------------------------ the metrics
\* the step was not a call of get_missed_emit_percentage
NoResult == [num |-> -1, den |-> -1]

\* variant: the test for total_emit_opportunities == 0 is missing (0.0 / 0.0)
MissedEmitPercentage_noZeroCheck(total, missed) ==
    [num |-> missed * 100, den |-> total]

\* get_missed_emit_percentage(): the returned double, kept as the exact
\* quotient num / den of (double)missed * 100.0 / (double)total
MissedEmitPercentage(total, missed) ==
    IF total = 0 THEN [num |-> 0, den |-> 1]
    ELSE [num |-> missed * 100, den |-> total]

\* ------------------------------------------------------------------- Init
\* variant: the constructor initialises was_empty_on_last_update to true
Init_flagSet ==
    /\ received_server_states = <<>>
    /\ pushed_first_element = FALSE
    /\ was_empty_on_last_update = TRUE
    /\ total_emit_opportunities = 0
    /\ missed_emit_opportunities = 0
    /\ average_sample_count = 0
    /\ average_last_sample = -1
    /\ elapsed = 0
    /\ clock_polls = 0
    /\ emitted = <<>>
    /\ pushed = <<>>
    /\ fires = <<>>
    /\ update_calls = 0
    /\ since_first_push = -1
    /\ restarts = 0
    /\ percentage_result = NoResult
    /\ tracked = 0

Init ==
    /\ received_server_states = <<>>
    /\ pushed_first_element = FALSE
    /\ was_empty_on_last_update = FALSE
    /\ total_emit_opportunities = 0
    /\ missed_emit_opportunities = 0
    /\ average_sample_count = 0
    /\ average_last_sample = -1
    /\ elapsed = 0
    /\ clock_polls = 0
    /\ emitted = <<>>
    /\ pushed = <<>>
    /\ fires = <<>>
    /\ update_calls = 0
    /\ since_first_push = -1
    /\ restarts = 0
    /\ percentage_result = NoResult
    /\ tracked = 0

\* ---------------------------------------------------------------- actions
\* time passes
Tick ==
    /\ elapsed < MaxElapsed
    /\ elapsed' = elapsed + 1
    /\ since_first_push' = IF since_first_push >= 0 /\ since_first_push < MaxSince
                           THEN since_first_push + 1
                           ELSE since_first_push
    /\ percentage_result' = NoResult
    /\ UNCHANGED <<tracked, restarts, received_server_states, pushed_first_element,
                   was_empty_on_last_update, total_emit_opportunities,
                   missed_emit_opportunities, average_sample_count,
                   average_last_sample, clock_polls, emitted, pushed, fires,
                   update_calls>>

\* push(item)
Push ==
    \E item \in Items :
        /\ Len(pushed) < MaxPushes
        /\ pushed' = Append(pushed, item)
        /\ received_server_states' = PushBack(received_server_states, item)
        /\ pushed_first_element' = TRUE
        /\ elapsed' = IF RestartsOnPush(pushed_first_element)
                      THEN ElapsedAfterRestart(elapsed)
                      ELSE elapsed
        /\ since_first_push' = IF ~pushed_first_element THEN 0 ELSE since_first_push
        /\ restarts' = IF RestartsOnPush(pushed_first_element)
                       THEN restarts + 1
                       ELSE restarts
        /\ percentage_result' = NoResult
        /\ UNCHANGED <<was_empty_on_last_update, total_emit_opportunities,
                       missed_emit_opportunities, average_sample_count,
                       average_last_sample, clock_polls, emitted, fires,
                       update_calls, tracked>>

\* update()
Update ==
    /\ update_calls < MaxUpdates
    /\ update_calls' = update_calls + 1
    /\ percentage_result' = NoResult
    /\ UNCHANGED <<pushed, pushed_first_element, since_first_push, restarts,
                   tracked>>
    /\ IF ReturnsEarly(pushed_first_element)
       THEN UNCHANGED <<received_server_states, was_empty_on_last_update,
                        total_emit_opportunities, missed_emit_opportunities,
                        average_sample_count, average_last_sample,
                        elapsed, clock_polls, emitted, fires>>
       ELSE LET fired == EnoughTimeHasPassed(elapsed)
                branch == UpdateBranch(received_server_states,
                                       was_empty_on_last_update)
            IN  /\ average_sample_count' =
                       SampleCountAfterUpdate(average_sample_count, fired)
                /\ average_last_sample' = Len(received_server_states)
                /\ clock_polls' = clock_polls + 1
                /\ elapsed' = ElapsedAfterPoll(elapsed)
                /\ \E value \in EmittedValues(branch, received_server_states) :
                       emitted' = emitted \o SinkCalls(fired, value)
                /\ IF fired
                   THEN /\ total_emit_opportunities' =
                               TotalAfterFire(total_emit_opportunities)
                        /\ missed_emit_opportunities' =
                               MissedAfterFire(branch, missed_emit_opportunities)
                        /\ was_empty_on_last_update' =
                               FlagAfterFire(branch, was_empty_on_last_update)
                        /\ received_server_states' \in
                               StatesAfterFire(branch, received_server_states)
                        /\ fires' = Append(fires,
                               [size |-> Len(received_server_states),
                                flag |-> was_empty_on_last_update,
                                branch |-> branch])
                   ELSE UNCHANGED <<total_emit_opportunities,
                                    missed_emit_opportunities,
                                    was_empty_on_last_update,
                                    received_server_states, fires>>

\* get_missed_emit_percentage()
GetMissedEmitPercentage ==
    /\ percentage_result' = MissedEmitPercentage(total_emit_opportunities,
                                                 missed_emit_opportunities)
    /\ UNCHANGED <<received_server_states, pushed_first_element,
                   was_empty_on_last_update, total_emit_opportunities,
                   missed_emit_opportunities, average_sample_count,
                   average_last_sample, elapsed, clock_polls, emitted, pushed,
                   fires, update_calls, since_first_push, restarts, tracked>>

Next == Tick \/ Push \/ Update \/ GetMissedEmitPercentage

Spec == Init /\ [][Next]_vars

\* ---------------------------------------------------------------- LiveSpec
\* The object driven for ever: push() and update() are called without end.
\* The state stays finite: the producer waits while MaxQueue items are
\* buffered, total_emit_opportunities and missed_emit_opportunities are kept
\* modulo CounterWrap, of the sink's log only the last call is kept, and the
\* records of the calls made (pushed, fires, update_calls, clock_polls,
\* average_sample_count) are not continued.  One buffered item at a time is
\* followed from its push to its emission.

\* time passes
LiveTick ==
    /\ elapsed < MaxLiveElapsed
    /\ elapsed' = elapsed + 1
    /\ since_first_push' = IF since_first_push >= 0 /\ since_first_push < MaxSince
                           THEN since_first_push + 1
                           ELSE since_first_push
    /\ percentage_result' = NoResult
    /\ UNCHANGED <<tracked, restarts, received_server_states,
                   pushed_first_element, was_empty_on_last_update,
                   total_emit_opportunities, missed_emit_opportunities,
                   average_sample_count, average_last_sample, clock_polls,
                   emitted, pushed, fires, update_calls>>

\* push(item)
LivePush ==
    \E item \in Items :
        /\ Len(received_server_states) < MaxQueue
        /\ received_server_states' = PushBack(received_server_states, item)
        /\ pushed_first_element' = TRUE
        /\ elapsed' = IF RestartsOnPush(pushed_first_element)
                      THEN ElapsedAfterRestart(elapsed)
                      ELSE elapsed
        /\ since_first_push' = IF ~pushed_first_element THEN 0 ELSE since_first_push
        /\ restarts' = IF RestartsOnPush(pushed_first_element)
                       THEN restarts + 1
                       ELSE restarts
        /\ percentage_result' = NoResult
        /\ tracked' \in IF tracked <= 0
                         THEN {tracked, Len(received_server_states')}
                         ELSE {tracked}
        /\ UNCHANGED <<was_empty_on_last_update, total_emit_opportunities,
                       missed_emit_opportunities, average_sample_count,
                       average_last_sample, clock_polls, emitted, fires,
                       update_calls, pushed>>

\* update()
LiveUpdate ==
    /\ percentage_result' = NoResult
    /\ UNCHANGED <<pushed, pushed_first_element, since_first_push, restarts,
                   update_calls, clock_polls, average_sample_count, fires>>
    /\ IF ReturnsEarly(pushed_first_element)
       THEN UNCHANGED <<received_server_states, was_empty_on_last_update,
                        total_emit_opportunities, missed_emit_opportunities,
                        average_last_sample, elapsed, emitted, tracked>>
       ELSE LET fired == EnoughTimeHasPassed(elapsed)
                branch == UpdateBranch(received_server_states,
                                       was_empty_on_last_update)
            IN  /\ average_last_sample' = Len(received_server_states)
                /\ elapsed' = ElapsedAfterPoll(elapsed)
                /\ \E value \in EmittedValues(branch, received_server_states) :
                       emitted' = IF fired THEN SinkCalls(fired, value)
                                           ELSE emitted
                /\ IF fired
                   THEN /\ total_emit_opportunities' =
                               TotalAfterFire(total_emit_opportunities)
                                   % CounterWrap
                        /\ missed_emit_opportunities' =
                               MissedAfterFire(branch, missed_emit_opportunities)
                                   % CounterWrap
                        /\ was_empty_on_last_update' =
                               FlagAfterFire(branch, was_empty_on_last_update)
                        /\ received_server_states' \in
                               StatesAfterFire(branch, received_server_states)
                        /\ tracked' = IF branch = "emit" /\ tracked > 0
                                      THEN (IF tracked = 1 THEN -1 ELSE tracked - 1)
                                      ELSE tracked
                   ELSE UNCHANGED <<total_emit_opportunities,
                                    missed_emit_opportunities,
                                    was_empty_on_last_update,
                                    received_server_states, tracked>>

LiveNext == LiveTick \/ LivePush \/ LiveUpdate

\* fairness: time passes, update() keeps being called (so the signal keeps
\* firing) and items keep being pushed
LiveSpec ==
    /\ Init
    /\ [][LiveNext]_vars
    /\ WF_vars(LiveTick)
    /\ WF_vars(LiveUpdate)
    /\ WF_vars(LivePush)

\* ------------------------------------------------- vocabulary of the claims
\* the present values among the sink's invocations
PresentValues(log) == SelectSeq(log, LAMBDA v : v # Nothing)

\* the step is a call of update() / of push() / a fire handled by update()
IsUpdateStep == update_calls' = update_calls + 1
IsPushStep == Len(pushed') = Len(pushed) + 1
IsFireStep == Len(fires') = Len(fires) + 1

\* some earlier fire found the buffer empty
SeenEmptyFire == \E i \in DOMAIN fires : fires[i].size = 0

\* ---------------------------------------------------------------------- C1
\* C1: in every reachable state missed_emit_opportunities is at most
\* total_emit_opportunities.
MissedNeverExceedsTotal == missed_emit_opportunities <= total_emit_opportunities

\* fires of both kinds have happened: some missed, some not
MissedBelowTotalReached ==
    /\ total_emit_opportunities >= 3
    /\ missed_emit_opportunities >= 1
    /\ missed_emit_opportunities < total_emit_opportunities

\* ---------------------------------------------------------------------- C2
\* C2: an update() call made before the first push changes neither the
\* counters, the buffer, the warm-up flag nor the occupancy average, does not
\* consult the clock and does not invoke the sink.
ColdUpdateIsNoOp ==
    [][(IsUpdateStep /\ pushed = <<>>) =>
          UNCHANGED <<total_emit_opportunities, missed_emit_opportunities,
                      received_server_states, was_empty_on_last_update,
                      average_sample_count, average_last_sample,
                      clock_polls, elapsed, emitted>>]_vars

\* several updates were made before any push, after more than one period
ColdUpdatesReached ==
    /\ pushed = <<>>
    /\ update_calls >= 3
    /\ elapsed >= 2 * Period

\* ---------------------------------------------------------------------- C3
\* C3: the present values handed to the sink so far, followed by the buffer
\* from head to tail, are exactly the items pushed so far, in push order.
DeliveredInArrivalOrder ==
    PresentValues(emitted) \o received_server_states = pushed

\* equal and different items were pushed, two were delivered, one is buffered
RepeatedItemsDelivered ==
    /\ pushed = <<1, 1, 2>>
    /\ PresentValues(emitted) = <<1, 1>>
    /\ received_server_states = <<2>>
    /\ missed_emit_opportunities >= 1

\* ---------------------------------------------------------------------- C4
\* C4: a step invokes the sink at most once, only update() invokes it, each
\* invocation carries one item or the empty marker, and an update() in which
\* the clock does not fire invokes it zero times and changes neither the
\* counters, the buffer nor the warm-up flag.
SinkAtMostOncePerUpdate ==
    [][/\ Len(emitted') <= Len(emitted) + 1
       /\ emitted' # emitted =>
            /\ IsUpdateStep
            /\ \E v \in Items \cup {Nothing} : emitted' = Append(emitted, v)
       /\ (IsUpdateStep /\ (pushed = <<>> \/ ~EnoughTimeHasPassed(elapsed))) =>
            UNCHANGED <<emitted, total_emit_opportunities,
                        missed_emit_opportunities, received_server_states,
                        was_empty_on_last_update>>]_vars

\* the clock was polled without firing, and both kinds of emission were made
UpdateWithoutFireReached ==
    /\ clock_polls > total_emit_opportunities
    /\ \E i \in DOMAIN emitted : emitted[i] = Nothing
    /\ \E i \in DOMAIN emitted : emitted[i] # Nothing

\* ---------------------------------------------------------------------- C5
\* C5: push(item) appends exactly the pushed item at the tail of the buffer,
\* whatever the buffer holds, invokes no sink and leaves the two counters and
\* the warm-up flag unchanged.
PushOnlyAppends ==
    [][IsPushStep =>
          /\ received_server_states' =
                 Append(received_server_states, pushed'[Len(pushed')])
          /\ UNCHANGED <<emitted, total_emit_opportunities,
                         missed_emit_opportunities,
                         was_empty_on_last_update>>]_vars

\* three items are buffered: nothing limited the buffer's growth
PushedOntoLongBuffer ==
    /\ Len(received_server_states) >= 3
    /\ update_calls >= 1

FlagClearedAfterEmission ==
    (emitted # <<>> /\ emitted[Len(emitted)] # Nothing) =>
        ~was_empty_on_last_update

\* ---------------------------------------------------------------------- C8
\* C8 as stated: with no push made, an update() that finds a period elapsed
\* counts one emit opportunity and one miss and emits "nothing".
ColdPeriodsCountAsMisses ==
    [][(IsUpdateStep /\ pushed = <<>>
          /\ EnoughTimeHasPassed(elapsed)) =>
          /\ total_emit_opportunities' = total_emit_opportunities + 1
          /\ missed_emit_opportunities' = missed_emit_opportunities + 1
          /\ emitted' = Append(emitted, Nothing)]_vars

\* C8 as amended: with no push made, no period is counted: both counters are
\* zero and the sink has received nothing, whatever number of periods went by
\* and however many update() calls were made.
ColdPeriodsCountNothing ==
    pushed = <<>> =>
        /\ total_emit_opportunities = 0
        /\ missed_emit_opportunities = 0
        /\ emitted = <<>>

\* five periods went by and five updates were made, with no push
FiveColdPeriodsReached ==
    /\ pushed = <<>>
    /\ update_calls >= 5
    /\ elapsed >= 5 * Period

\* ---------------------------------------------------------------------- C9
\* C9: every fire that took the dequeue-and-emit branch found at least one
\* item in the buffer, and at least two when the warm-up flag was true.
DequeueOnlyWhenAllowed ==
    \A i \in DOMAIN fires :
        fires[i].branch = "emit" =>
            /\ fires[i].size >= 1
            /\ fires[i].flag => fires[i].size >= 2

\* emissions were made both with the flag false and one item, and with the
\* flag true and two items
DequeuedInBothModes ==
    /\ \E i \in DOMAIN fires :
           fires[i].branch = "emit" /\ ~fires[i].flag /\ fires[i].size = 1
    /\ \E i \in DOMAIN fires :
           fires[i].branch = "emit" /\ fires[i].flag /\ fires[i].size = 2

\* --------------------------------------------------------------------- C10
\* C10: no step lowers total_emit_opportunities or missed_emit_opportunities,
\* and no step raises either by more than one.
CountersStepByAtMostOne ==
    [][/\ total_emit_opportunities' >= total_emit_opportunities
       /\ total_emit_opportunities' <= total_emit_opportunities + 1
       /\ missed_emit_opportunities' >= missed_emit_opportunities
       /\ missed_emit_opportunities' <= missed_emit_opportunities + 1]_vars

\* the first update came two periods after the first push and counted one
\* fire
LateFireCountedOnce ==
    /\ since_first_push >= 2 * Period
    /\ update_calls = 1
    /\ total_emit_opportunities = 1
    /\ elapsed = 0

\* --------------------------------------------------------------------- C11
\* C11: get_missed_emit_percentage() returns 0 when total_emit_opportunities
\* is 0 and 100 * missed / total otherwise, a value between 0 and 100, and
\* changes no state of the object.
PercentageIsMissedShare ==
    [][percentage_result' # NoResult =>
          /\ percentage_result'.den > 0
          /\ total_emit_opportunities = 0 => percentage_result'.num = 0
          /\ percentage_result'.num * total_emit_opportunities =
                 100 * missed_emit_opportunities * percentage_result'.den
          /\ 0 <= percentage_result'.num
          /\ percentage_result'.num <= 100 * percentage_result'.den
          /\ UNCHANGED <<received_server_states, pushed_first_element,
                         was_empty_on_last_update, total_emit_opportunities,
                         missed_emit_opportunities, average_sample_count,
                         average_last_sample, elapsed, emitted>>]_vars

\* the percentage was read after three fires of which one was missed
PercentageOfOneInThree ==
    /\ percentage_result = [num |-> 100, den |-> 3]
    /\ total_emit_opportunities = 3
    /\ missed_emit_opportunities = 1

\* --------------------------------------------------------------------- C12
\* C12: output_signal is restarted once, by the first push, and by no later
\* push or update; a fire has been counted only when at least one full
\* period has passed since the first push.
RestartedOnceByFirstPush ==
    /\ restarts = IF pushed = <<>> THEN 0 ELSE 1
    /\ total_emit_opportunities >= 1 => since_first_push >= Period

\* updates were made before the first push and between it and the first
\* fire, which came exactly one period after the push
FirstFireOnePeriodAfterPush ==
    /\ total_emit_opportunities = 1
    /\ since_first_push = Period
    /\ update_calls > clock_polls
    /\ clock_polls >= 2
    /\ elapsed = 0

\* --------------------------------------------------------------------- C13
\* C13: a fire that finds at least two items, with the warm-up flag true or
\* false, removes exactly the front item, emits it as a present value, keeps
\* the other items in order, adds one to total and leaves missed unchanged.
FireOnTwoEmitsFront ==
    [][(IsFireStep /\ Len(received_server_states) >= 2) =>
          /\ emitted' = Append(emitted, Head(received_server_states))
          /\ Head(received_server_states) # Nothing
          /\ received_server_states' = Tail(received_server_states)
          /\ total_emit_opportunities' = total_emit_opportunities + 1
          /\ missed_emit_opportunities' = missed_emit_opportunities]_vars

\* the last fire found two items with the warm-up flag true and left one
EmittedFromTwoAfterWarmUp ==
    /\ fires # <<>>
    /\ fires[Len(fires)] = [size |-> 2, flag |-> TRUE, branch |-> "emit"]
    /\ Len(received_server_states) = 1
    /\ emitted[Len(emitted)] = pushed[2]

EmptyFireCountsMiss ==
    [][(IsFireStep /\ received_server_states = <<>>) =>
          /\ was_empty_on_last_update'
          /\ total_emit_opportunities' = total_emit_opportunities + 1
          /\ missed_emit_opportunities' = missed_emit_opportunities + 1
          /\ emitted' = Append(emitted, Nothing)
          /\ received_server_states' = <<>>]_vars

\* after the only item was emitted, three fires in a row found the buffer
\* empty
ThreeEmptyFiresInARow ==
    /\ Len(fires) = 4
    /\ fires[1].branch = "emit"
    /\ \A i \in 2..4 : fires[i].branch = "empty"
    /\ missed_emit_opportunities = 3
    /\ emitted = <<pushed[1], Nothing, Nothing, Nothing>>

OneSamplePerWarmUpdate ==
    [][IF IsUpdateStep /\ pushed # <<>>
       THEN /\ average_sample_count' = average_sample_count + 1
            /\ average_last_sample' = Len(received_server_states)
       ELSE UNCHANGED <<average_sample_count, average_last_sample>>]_vars

\* samples were taken by updates that fired and by updates that did not, the
\* last one of a buffer of two before its front item was removed, and none by
\* the updates before the first push
SampledBeforeDequeue ==
    /\ total_emit_opportunities >= 1
    /\ average_sample_count > total_emit_opportunities
    /\ update_calls > average_sample_count
    /\ average_last_sample = 2
    /\ Len(received_server_states) = 1
    /\ Len(pushed) = 2

\* --------------------------------------------------------------------- C18
\* C18: the sink has been invoked total_emit_opportunities times, with the
\* empty marker missed_emit_opportunities times and with a present value the
\* other times, which is also the number of items removed from the buffer.
EveryFireAccountedOnce ==
    /\ Len(emitted) = total_emit_opportunities
    /\ Len(SelectSeq(emitted, LAMBDA v : v = Nothing)) = missed_emit_opportunities
    /\ Len(PresentValues(emitted)) =
           total_emit_opportunities - missed_emit_opportunities
    /\ Len(pushed) - Len(received_server_states) =
           total_emit_opportunities - missed_emit_opportunities

\* five fires: two emitted an item, one found the buffer empty, two withheld
\* a single item
FiveFiresOfEachKind ==
    /\ total_emit_opportunities = 5
    /\ missed_emit_opportunities = 3
    /\ \E i \in DOMAIN fires : fires[i].branch = "refill"
    /\ \E i \in DOMAIN fires : fires[i].branch = "empty"
    /\ Len(received_server_states) = 1

\* --------------------------------------------------------------------- C19
\* C19: with update() called and the signal firing again and again and items
\* pushed again and again, every buffered item is eventually handed to the
\* sink as a present value.
ItemsNotStarved ==
    \A v \in Items :
        (tracked \in DOMAIN received_server_states
            /\ received_server_states[tracked] = v)
        ~> (tracked = -1 /\ emitted = <<v>>)

\* the followed item has just been emitted by a fire made with the warm-up
\* flag true, which left one item behind
FollowedItemEmittedInWarmUp ==
    /\ tracked = -1
    /\ was_empty_on_last_update
    /\ elapsed = 0
    /\ Len(received_server_states) = 1
    /\ emitted # <<>>
    /\ emitted[1] # Nothing

====
